---- MODULE Spec2Model ----
(***************************************************************************)
(* The handle-indexed instance store `Model<V, I>` of src/engine/model.rs. *)
(* Vec indices are 0-based as in the source; At/VecSwap translate to the   *)
(* 1-based sequences of TLA+.  HashMap<usize, usize> is a function whose   *)
(* DOMAIN is the key set.  The store owns three EngineBuffers            *)
(* (src/engine/buffer.rs), which live on a device and an allocator.        *)
(***************************************************************************)
EXTENDS Integers, Sequences, FiniteSets, TLC

\* Number of handles one run may issue (caps next_handle).
MaxHandles == 4

\* Number of calls one run may make (caps the length of a run).
MaxCalls == 7

\* Number of calls in one run that also pushes the store to its buffers and
\* draws (SpecGpu).
MaxGpuRun == 5

\* Number of calls in one run on a single EngineBuffer (SpecBuffer).
MaxBufCalls == 4

\* Number of elements in one payload handed to EngineBuffer::fill (SpecBuffer).
MaxFillLen == 2

\* Number of calls in one life of the engine, init and drop included
\* (SpecEngine).
MaxEngineCalls == 5

\* Number of lights one run may add to the LightManager (SpecEngine).
MaxLights == 2

\* Number of models one run may hand to the engine (SpecEngine).
MaxModels == 1

\* Number of RedrawRequested events one run handles (SpecFrames).
MaxFrames == 4

\* Number of calls in one run on VkAllocator (SpecAllocator).
MaxAllocCalls == 4

\* std::mem::size_of::<T>() of the element type of a payload, in bytes.
SizeOf == 2

\* std::mem::size_of::<u32>(), the element type of index_data.
SizeOfU32 == 4

\* std::mem::size_of::<f32>(), the element type of the light data.
SizeOfF32 == 4

\* std::mem::size_of::<f64>(), the type of the literals in `&[0., 0.]`.
SizeOfF64 == 8

\* std::mem::size_of::<[[f32; 4]; 4]>(), one camera transform.
SizeOfMat4 == 64

\* Handle arguments the caller may pass: every issuable handle and one
\* handle that is never issued.
HandleArgs == 0..MaxHandles

VARIABLES
    handles,          \* Vec<usize>: dense array of handles
    instances,        \* Vec<I>: dense array of records, parallel to handles
    handle_to_index,  \* HashMap<usize, usize>
    first_invisible,  \* usize
    next_handle,      \* usize
    aborted,          \* TRUE once a call has panicked (the process unwinds)
    op,               \* name of the last call
    arg,              \* its handle arguments (or <<>>)
    elem,             \* its record argument (or 0)
    ret,              \* its return value
    pre,              \* the store as it was when the last call started
    inserted,         \* history: handle |-> record passed to the insert that returned it
    returned,         \* history: handles returned by insert / insert_visibly, in order
    removed,          \* history: handles for which remove returned Ok
    calls,            \* history: number of calls made so far
    preLive,          \* history: the live handles when the last call started
    vertex_buffer,    \* Option<EngineBuffer>: <<>> or <<buffer>>
    index_buffer,     \* Option<EngineBuffer>
    instance_buffer,  \* Option<EngineBuffer>
    gpu,              \* the device and the allocator: live buffers, live allocations, memory
    preGpu,           \* history: gpu when the last call started
    events,           \* device / allocator calls made by the last call, in order
    commands,         \* commands the last draw recorded into the command buffer
    payload,          \* the slice the last call handed to EngineBuffer::fill
    buf,              \* SpecBuffer: the EngineBuffer under test, <<>> before new
    preBuf,           \* history: buf when the last call started
    cap0,             \* history: the size given to EngineBuffer::new
    fills,            \* history: byte sizes of the payloads of the fills that returned Ok
    held,             \* SpecAllocator: the (resource, allocation) pairs VkAllocator has handed out
    engine,           \* SpecEngine: Option<VulkanEngine>, <<>> before init
    preEngine,        \* history: engine when the last call started
    lights,           \* SpecEngine: the LightManager
    log,              \* history: every device / allocator call of the engine's life, in order
    swapchain,        \* SpecFrames: Option<EngineSwapchain>: amount_of_images, current_image, may_begin_drawing
    executing,        \* SpecFrames: the submissions the GPU has not finished, oldest first
    busyAtWrite       \* history: the submissions still executing when the last update_instance_buffer ran

vars == <<handles, instances, handle_to_index, first_invisible, next_handle,
          aborted, op, arg, elem, ret, pre, inserted, returned, removed, calls,
          preLive, vertex_buffer, index_buffer, instance_buffer, gpu, preGpu,
          events, commands, payload, buf, preBuf, cap0, fills, held,
          engine, preEngine, lights, log, swapchain, executing, busyAtWrite>>

storeVars == <<handles, instances, handle_to_index, first_invisible, next_handle,
               pre, inserted, returned, removed, preLive,
               vertex_buffer, index_buffer, instance_buffer>>

bufVars == <<buf, preBuf, cap0, fills>>

\* The state of what stands around the store and its buffers: the allocator
\* wrapper, the engine, the render loop and the light manager.
hostVars == <<held, engine, preEngine, lights, log, swapchain, executing,
              busyAtWrite>>

----------------------------------------------------------------------------
\* Vec and HashMap primitives

At(s, i) == s[i + 1]

InBounds(s, i) == i >= 0 /\ i < Len(s)

VecSwap(s, i, j) ==
    [k \in 1..Len(s) |-> IF k = i + 1 THEN s[j + 1]
                         ELSE IF k = j + 1 THEN s[i + 1]
                         ELSE s[k]]

VecPop(s) == SubSeq(s, 1, Len(s) - 1)

MapHas(m, k) == k \in DOMAIN m

MapInsert(m, k, v) == [x \in (DOMAIN m) \cup {k} |-> IF x = k THEN v ELSE m[x]]

MapRemove(m, k) == [x \in (DOMAIN m) \ {k} |-> m[x]]

EmptyMap == [x \in {} |-> 0]

\* Return values: Option / Result / panic, all with the same shape.
Ok(v) == [tag |-> "Ok", val |-> v]
Err == [tag |-> "Err", val |-> 0]          \* Err(InvalidHandle)
Some(v) == [tag |-> "Some", val |-> v]
None == [tag |-> "None", val |-> 0]
Panic == [tag |-> "Panic", val |-> 0]
Unit == 0

\* The store as one value.
St == [handles |-> handles, instances |-> instances,
       handle_to_index |-> handle_to_index,
       first_invisible |-> first_invisible, next_handle |-> next_handle,
       vertex_buffer |-> vertex_buffer, index_buffer |-> index_buffer,
       instance_buffer |-> instance_buffer]

EmptyStore == [handles |-> <<>>, instances |-> <<>>, handle_to_index |-> EmptyMap,
               first_invisible |-> 0, next_handle |-> 0,
               vertex_buffer |-> <<>>, index_buffer |-> <<>>,
               instance_buffer |-> <<>>]

\* vertex_data and index_data of Model::quad; no method of the store writes
\* them.  The four vertices lb, lt, rb, rt are numbered 1..4.
vertex_data == <<1, 2, 3, 4>>

index_data == <<0, 2, 1, 1, 2, 3>>

\* The device and the allocator before any call.
EmptyGpu == [buffers |-> {}, images |-> {}, allocations |-> {}, mem |-> EmptyMap,
             next_id |-> 1]

----------------------------------------------------------------------------
\* The methods of impl<V, I> Model<V, I>, as functions of the store S.
\* Mutating methods yield [store, ret]; ret = Panic means the call panicked.

get(S, handle) ==
    IF MapHas(S.handle_to_index, handle)
    THEN LET index == S.handle_to_index[handle]
         IN IF InBounds(S.instances, index) THEN Some(At(S.instances, index)) ELSE None
    ELSE None

\* is_visible that reports an unknown handle as invisible instead of failing.
is_visible_or_false(S, handle) ==
    IF MapHas(S.handle_to_index, handle)
    THEN Ok(S.handle_to_index[handle] < S.first_invisible)
    ELSE Ok(FALSE)

is_visible(S, handle) ==
    IF MapHas(S.handle_to_index, handle)
    THEN Ok(S.handle_to_index[handle] < S.first_invisible)
    ELSE Err

swap_by_index(S, index1, index2) ==
    IF index1 = index2
    THEN [store |-> S, ret |-> Ok(Unit)]
    ELSE IF ~InBounds(S.handles, index1) \/ ~InBounds(S.handles, index2)
    THEN [store |-> S, ret |-> Panic]       \* self.handles[index] out of bounds
    ELSE LET handle1 == At(S.handles, index1)
             handle2 == At(S.handles, index2)
         IN [store |-> [S EXCEPT
                 !.handles = VecSwap(S.handles, index1, index2),
                 !.instances = VecSwap(S.instances, index1, index2),
                 !.handle_to_index =
                     MapInsert(MapInsert(S.handle_to_index, index1, handle2),
                               index2, handle1)],
             ret |-> Ok(Unit)]

swap_by_handle(S, h1, h2) ==
    IF h1 = h2
    THEN [store |-> S, ret |-> Ok(Unit)]
    ELSE IF MapHas(S.handle_to_index, h1) /\ MapHas(S.handle_to_index, h2)
    THEN LET i1 == S.handle_to_index[h1]
             i2 == S.handle_to_index[h2]
         IN IF ~InBounds(S.handles, i1) \/ ~InBounds(S.handles, i2)
            THEN [store |-> S, ret |-> Panic]    \* Vec::swap out of bounds
            ELSE [store |-> [S EXCEPT
                     !.handles = VecSwap(S.handles, i1, i2),
                     !.instances = VecSwap(S.instances, i1, i2),
                     !.handle_to_index =
                         MapInsert(MapInsert(S.handle_to_index, i1, h2), i2, h1)],
                  ret |-> Ok(Unit)]
    ELSE [store |-> S, ret |-> Err]

make_visible(S, handle) ==
    IF MapHas(S.handle_to_index, handle)
    THEN LET index == S.handle_to_index[handle]
         IN IF index < S.first_invisible
            THEN [store |-> S, ret |-> Ok(Unit)]
            ELSE LET sw == swap_by_index(S, index, S.first_invisible)
                 IN IF sw.ret = Panic
                    THEN [store |-> S, ret |-> Panic]
                    ELSE [store |-> [sw.store EXCEPT
                                        !.first_invisible = S.first_invisible + 1],
                          ret |-> Ok(Unit)]
    ELSE [store |-> S, ret |-> Err]

\* make_invisible that also drops the instance buffer, so that the next
\* update rebuilds it.
make_invisible_dropping_buffer(S, handle) ==
    IF MapHas(S.handle_to_index, handle)
    THEN LET index == S.handle_to_index[handle]
         IN IF index >= S.first_invisible
            THEN [store |-> S, ret |-> Ok(Unit)]
            ELSE LET sw == swap_by_index(S, index, S.first_invisible - 1)
                 IN IF sw.ret = Panic
                    THEN [store |-> S, ret |-> Panic]
                    ELSE [store |-> [sw.store EXCEPT
                                        !.first_invisible = S.first_invisible - 1,
                                        !.instance_buffer = <<>>],
                          ret |-> Ok(Unit)]
    ELSE [store |-> S, ret |-> Err]

make_invisible(S, handle) ==
    IF MapHas(S.handle_to_index, handle)
    THEN LET index == S.handle_to_index[handle]
         IN IF index >= S.first_invisible
            THEN [store |-> S, ret |-> Ok(Unit)]
            ELSE LET sw == swap_by_index(S, index, S.first_invisible - 1)
                 IN IF sw.ret = Panic
                    THEN [store |-> S, ret |-> Panic]
                    ELSE [store |-> [sw.store EXCEPT
                                        !.first_invisible = S.first_invisible - 1],
                          ret |-> Ok(Unit)]
    ELSE [store |-> S, ret |-> Err]

\* insert with the handle taken from the dense length instead of next_handle.
insert_reusing_index(S, element) ==
    LET handle == Len(S.instances)
        index == Len(S.instances)
    IN [store |-> [S EXCEPT
            !.next_handle = S.next_handle + 1,
            !.instances = Append(S.instances, element),
            !.handles = Append(S.handles, handle),
            !.handle_to_index = MapInsert(S.handle_to_index, handle, index)],
        ret |-> Ok(handle)]

insert(S, element) ==
    LET handle == S.next_handle
        index == Len(S.instances)
    IN [store |-> [S EXCEPT
            !.next_handle = S.next_handle + 1,
            !.instances = Append(S.instances, element),
            !.handles = Append(S.handles, handle),
            !.handle_to_index = MapInsert(S.handle_to_index, handle, index)],
        ret |-> Ok(handle)]

insert_visibly(S, element) ==
    LET ins == insert(S, element)
        new_handle == ins.ret.val
        mv == make_visible(ins.store, new_handle)     \* .ok() drops an Err
    IN IF mv.ret = Panic
       THEN [store |-> S, ret |-> Panic]
       ELSE [store |-> mv.store, ret |-> Ok(new_handle)]

\* remove, after the `if index < self.first_invisible` block has run on S1.
\* instances.len() - 1 with an empty Vec: the debug build panics on the
\* subtraction, the release build wraps to usize::MAX and swap_by_index then
\* panics on handles[first_invisible]; both builds panic.
remove_tail(S, S1, handle) ==
    IF Len(S1.instances) = 0
    THEN [store |-> S, ret |-> Panic]
    ELSE LET sw == swap_by_index(S1, S1.first_invisible, Len(S1.instances) - 1)
         IN IF sw.ret = Panic
            THEN [store |-> S, ret |-> Panic]
            ELSE [store |-> [sw.store EXCEPT
                     !.handles = VecPop(sw.store.handles),
                     !.handle_to_index = MapRemove(sw.store.handle_to_index, handle),
                     !.instances = VecPop(sw.store.instances)],
                  ret |-> Ok(At(sw.store.instances, Len(sw.store.instances) - 1))]

remove(S, handle) ==
    IF MapHas(S.handle_to_index, handle)
    THEN LET index == S.handle_to_index[handle]
         IN IF index < S.first_invisible
            THEN LET sw == swap_by_index(S, index, S.first_invisible - 1)
                 IN IF sw.ret = Panic
                    THEN [store |-> S, ret |-> Panic]
                    ELSE remove_tail(S, [sw.store EXCEPT
                                 !.first_invisible = S.first_invisible - 1], handle)
            ELSE remove_tail(S, S, handle)
    ELSE [store |-> S, ret |-> Err]

----------------------------------------------------------------------------
\* EngineBuffer (src/engine/buffer.rs) on the device and allocator G.
\* vk::Buffer handles and allocations are numbered from G.next_id.  Methods
\* yield [buf, gpu, events, ret]; on a panic gpu and events show what the
\* call had done before it unwound.

\* What the device and the allocator answer to EngineBuffer::new.
Outcomes == {"ok", "create_buffer_fails", "allocate_fails", "bind_fails"}

\* gpu_allocator::MemoryLocation; only CpuToGpu memory has a mapped pointer.
MemoryLocations == {"CpuToGpu", "GpuOnly"}

Mapped(memory_usage) == memory_usage # "GpuOnly"

\* The bytes of a slice of elements of `size` bytes each: byte k of element e
\* is e * size + k.
Encode(data, size) ==
    [b \in 1..(Len(data) * size) |->
        data[((b - 1) \div size) + 1] * size + ((b - 1) % size)]

\* A byte of memory nobody has written yet.
Unwritten == 0 - 1

Event(call, id) == [call |-> call, id |-> id]

\* ptr.copy_from_nonoverlapping: bytes lands at offset 0 of the mapping.
CopyTo(mem, bytes) ==
    [b \in 1..(IF Len(bytes) > Len(mem) THEN Len(bytes) ELSE Len(mem)) |->
        IF b <= Len(bytes) THEN bytes[b] ELSE mem[b]]

\* EngineBuffer::new that records twice the requested size as the capacity.
EngineBuffer_new_doubled(G, size_in_bytes, usage, memory_usage, outcome) ==
    IF outcome # "ok"
    THEN [buf |-> <<>>, gpu |-> G, events |-> <<>>, ret |-> Panic]
    ELSE [buf |-> <<[buffer |-> G.next_id,
                     allocation |-> Some(G.next_id + 1),
                     size_in_bytes |-> 2 * size_in_bytes,
                     usage |-> usage,
                     memory_usage |-> memory_usage]>>,
          gpu |-> [G EXCEPT
                     !.buffers = G.buffers \cup {G.next_id},
                     !.allocations = G.allocations \cup {G.next_id + 1},
                     !.mem = MapInsert(G.mem, G.next_id + 1,
                                       [b \in 1..(2 * size_in_bytes) |-> Unwritten]),
                     !.next_id = G.next_id + 2],
          events |-> <<Event("create_buffer", G.next_id),
                       Event("allocate", G.next_id + 1),
                       Event("bind_buffer_memory", G.next_id)>>,
          ret |-> Ok(Unit)]

EngineBuffer_new(G, size_in_bytes, usage, memory_usage, outcome) ==
    IF outcome = "create_buffer_fails"
    THEN [buf |-> <<>>, gpu |-> G, events |-> <<>>, ret |-> Panic]
    ELSE
    LET buffer == G.next_id
        G1 == [G EXCEPT !.buffers = G.buffers \cup {buffer}, !.next_id = G.next_id + 1]
        ev1 == <<Event("create_buffer", buffer)>>
    IN IF outcome = "allocate_fails"
       THEN [buf |-> <<>>, gpu |-> G1, events |-> ev1, ret |-> Panic]
       ELSE
       LET allocation == G1.next_id
           G2 == [G1 EXCEPT
                    !.allocations = G1.allocations \cup {allocation},
                    !.mem = MapInsert(G1.mem, allocation,
                                      [b \in 1..size_in_bytes |-> Unwritten]),
                    !.next_id = G1.next_id + 1]
           ev2 == Append(ev1, Event("allocate", allocation))
       IN IF outcome = "bind_fails"
          THEN [buf |-> <<>>, gpu |-> G2, events |-> ev2, ret |-> Panic]
          ELSE [buf |-> <<[buffer |-> buffer,
                           allocation |-> Some(allocation),
                           size_in_bytes |-> size_in_bytes,
                           usage |-> usage,
                           memory_usage |-> memory_usage]>>,
                gpu |-> G2,
                events |-> Append(ev2, Event("bind_buffer_memory", buffer)),
                ret |-> Ok(Unit)]

\* The second half of fill: the copy through the mapped pointer into B1.
fill_copy(B1, G1, ev, bytes) ==
    IF B1.allocation = None
    THEN [buf |-> <<B1>>, gpu |-> G1, events |-> ev, ret |-> Ok(Unit)]
    ELSE IF ~Mapped(B1.memory_usage)
    THEN [buf |-> <<B1>>, gpu |-> G1, events |-> ev, ret |-> Panic]   \* mapped_ptr().unwrap()
    ELSE LET a == B1.allocation.val
         IN [buf |-> <<B1>>,
             gpu |-> [G1 EXCEPT !.mem = MapInsert(G1.mem, a, CopyTo(G1.mem[a], bytes))],
             events |-> Append(ev, Event("copy", a)),
             ret |-> Ok(Unit)]

\* fill that rebuilds the buffer whenever the payload size differs from the
\* capacity (!= in place of >).
fill_resizing(B, G, data, size, outcome) ==
    LET bytes_to_write == Len(data) * size
        bytes == Encode(data, size)
    IN IF bytes_to_write # B.size_in_bytes
       THEN IF B.allocation = None \/ B.allocation.val \notin G.allocations
            THEN [buf |-> <<B>>, gpu |-> G, events |-> <<>>, ret |-> Panic]
            ELSE LET a == B.allocation.val
                     G1 == [G EXCEPT !.allocations = G.allocations \ {a},
                                     !.mem = MapRemove(G.mem, a),
                                     !.buffers = G.buffers \ {B.buffer}]
                     ev1 == <<Event("free", a), Event("destroy_buffer", B.buffer)>>
                     n == EngineBuffer_new(G1, bytes_to_write, B.usage,
                                           B.memory_usage, outcome)
                 IN IF n.ret = Panic
                    THEN [buf |-> <<[B EXCEPT !.allocation = None]>>, gpu |-> n.gpu,
                          events |-> ev1 \o n.events, ret |-> Panic]
                    ELSE fill_copy(n.buf[1], n.gpu, ev1 \o n.events, bytes)
       ELSE fill_copy(B, G, <<>>, bytes)

\* fill that copies only when the payload fits, and returns right after a grow.
fill_copy_only_if_fits(B, G, data, size, outcome) ==
    LET bytes_to_write == Len(data) * size
        bytes == Encode(data, size)
    IN IF bytes_to_write > B.size_in_bytes
       THEN IF B.allocation = None \/ B.allocation.val \notin G.allocations
            THEN [buf |-> <<B>>, gpu |-> G, events |-> <<>>, ret |-> Panic]
            ELSE LET a == B.allocation.val
                     G1 == [G EXCEPT !.allocations = G.allocations \ {a},
                                     !.mem = MapRemove(G.mem, a),
                                     !.buffers = G.buffers \ {B.buffer}]
                     ev1 == <<Event("free", a), Event("destroy_buffer", B.buffer)>>
                     n == EngineBuffer_new(G1, bytes_to_write, B.usage,
                                           B.memory_usage, outcome)
                 IN IF n.ret = Panic
                    THEN [buf |-> <<[B EXCEPT !.allocation = None]>>, gpu |-> n.gpu,
                          events |-> ev1 \o n.events, ret |-> Panic]
                    ELSE [buf |-> n.buf, gpu |-> n.gpu,
                          events |-> ev1 \o n.events, ret |-> Ok(Unit)]
       ELSE fill_copy(B, G, <<>>, bytes)

\* fill that builds the new buffer first and releases the old one afterwards.
fill_new_before_free(B, G, data, size, outcome) ==
    LET bytes_to_write == Len(data) * size
        bytes == Encode(data, size)
    IN IF bytes_to_write > B.size_in_bytes
       THEN IF B.allocation = None \/ B.allocation.val \notin G.allocations
            THEN [buf |-> <<B>>, gpu |-> G, events |-> <<>>, ret |-> Panic]
            ELSE LET a == B.allocation.val
                     n == EngineBuffer_new(G, bytes_to_write, B.usage,
                                           B.memory_usage, outcome)
                     G1 == [n.gpu EXCEPT !.allocations = n.gpu.allocations \ {a},
                                         !.mem = MapRemove(n.gpu.mem, a),
                                         !.buffers = n.gpu.buffers \ {B.buffer}]
                     ev1 == <<Event("free", a), Event("destroy_buffer", B.buffer)>>
                 IN IF n.ret = Panic
                    THEN [buf |-> <<B>>, gpu |-> n.gpu, events |-> n.events,
                          ret |-> Panic]
                    ELSE fill_copy(n.buf[1], G1, n.events \o ev1, bytes)
       ELSE fill_copy(B, G, <<>>, bytes)

fill(B, G, data, size, outcome) ==
    LET bytes_to_write == Len(data) * size
        bytes == Encode(data, size)
    IN IF bytes_to_write > B.size_in_bytes
       THEN IF B.allocation = None \/ B.allocation.val \notin G.allocations
            THEN [buf |-> <<B>>, gpu |-> G, events |-> <<>>, ret |-> Panic]  \* take().unwrap() / free().unwrap()
            ELSE LET a == B.allocation.val
                     G1 == [G EXCEPT !.allocations = G.allocations \ {a},
                                     !.mem = MapRemove(G.mem, a),
                                     !.buffers = G.buffers \ {B.buffer}]
                     ev1 == <<Event("free", a), Event("destroy_buffer", B.buffer)>>
                     n == EngineBuffer_new(G1, bytes_to_write, B.usage,
                                           B.memory_usage, outcome)
                 IN IF n.ret = Panic
                    THEN [buf |-> <<[B EXCEPT !.allocation = None]>>, gpu |-> n.gpu,
                          events |-> ev1 \o n.events, ret |-> Panic]
                    ELSE fill_copy(n.buf[1], n.gpu, ev1 \o n.events, bytes)
       ELSE fill_copy(B, G, <<>>, bytes)

\* cleanup that skips the free when the allocation is already taken and
\* destroys the buffer handle all the same.
cleanup_destroying_again(B, G) ==
    IF B.allocation = None \/ B.allocation.val \notin G.allocations
    THEN [buf |-> <<B>>, gpu |-> [G EXCEPT !.buffers = G.buffers \ {B.buffer}],
          events |-> <<Event("destroy_buffer", B.buffer)>>, ret |-> Ok(Unit)]
    ELSE LET a == B.allocation.val
         IN [buf |-> <<[B EXCEPT !.allocation = None]>>,
             gpu |-> [G EXCEPT !.allocations = G.allocations \ {a},
                               !.mem = MapRemove(G.mem, a),
                               !.buffers = G.buffers \ {B.buffer}],
             events |-> <<Event("free", a), Event("destroy_buffer", B.buffer)>>,
             ret |-> Ok(Unit)]

cleanup(B, G) ==
    IF B.allocation = None \/ B.allocation.val \notin G.allocations
    THEN [buf |-> <<B>>, gpu |-> G, events |-> <<>>, ret |-> Panic]   \* take().unwrap() / free().unwrap()
    ELSE LET a == B.allocation.val
         IN [buf |-> <<[B EXCEPT !.allocation = None]>>,
             gpu |-> [G EXCEPT !.allocations = G.allocations \ {a},
                               !.mem = MapRemove(G.mem, a),
                               !.buffers = G.buffers \ {B.buffer}],
             events |-> <<Event("free", a), Event("destroy_buffer", B.buffer)>>,
             ret |-> Ok(Unit)]

----------------------------------------------------------------------------
\* VkAllocator (src/engine/allocator.rs) on the device and allocator G.
\* Methods yield [gpu, events, ret]; Ok carries <<resource, allocation>>.

\* allocate_image and allocate_buffer have one body: create the resource,
\* allocate for its requirements, bind; each step leaves with `?` on an Err.
\* kind is "buffer" or "image"; the outcome "create_buffer_fails" stands for
\* the failure of create_image as well.
allocate_resource(G, kind, size, outcome) ==
    IF outcome = "create_buffer_fails"
    THEN [gpu |-> G, events |-> <<>>, ret |-> Err]
    ELSE
    LET resource == G.next_id
        G1 == IF kind = "buffer"
              THEN [G EXCEPT !.buffers = G.buffers \cup {resource},
                             !.next_id = G.next_id + 1]
              ELSE [G EXCEPT !.images = G.images \cup {resource},
                             !.next_id = G.next_id + 1]
        ev1 == <<Event("create_" \o kind, resource)>>
    IN IF outcome = "allocate_fails"
       THEN [gpu |-> G1, events |-> ev1, ret |-> Err]
       ELSE
       LET allocation == G1.next_id
           G2 == [G1 EXCEPT
                    !.allocations = G1.allocations \cup {allocation},
                    !.mem = MapInsert(G1.mem, allocation,
                                      [b \in 1..size |-> Unwritten]),
                    !.next_id = G1.next_id + 1]
           ev2 == Append(ev1, Event("allocate", allocation))
       IN IF outcome = "bind_fails"
          THEN [gpu |-> G2, events |-> ev2, ret |-> Err]
          ELSE [gpu |-> G2,
                events |-> Append(ev2, Event("bind_" \o kind \o "_memory", resource)),
                ret |-> Ok(<<resource, allocation>>)]

allocate_image(G, size, outcome) == allocate_resource(G, "image", size, outcome)

allocate_buffer(G, size, outcome) == allocate_resource(G, "buffer", size, outcome)

\* VkAllocator::free with a destroyer that destroys the resource the
\* allocation was bound to.
free(G, kind, resource, allocation) ==
    IF allocation \notin G.allocations
    THEN [gpu |-> G, events |-> <<>>, ret |-> Panic]     \* free(..).unwrap()
    ELSE [gpu |-> [G EXCEPT !.allocations = G.allocations \ {allocation},
                            !.mem = MapRemove(G.mem, allocation),
                            !.buffers = G.buffers \ {resource},
                            !.images = G.images \ {resource}],
          events |-> <<Event("free", allocation), Event("destroy_" \o kind, resource)>>,
          ret |-> Ok(Unit)]

----------------------------------------------------------------------------
\* The methods of Model that push the store to its buffers and draw.  They
\* yield [store, gpu, events, payload, ret]; payload is the slice handed to
\* EngineBuffer::fill.

\* `if let Some(buffer) = &mut field { buffer.fill(data)?; } else { new(bytes)?;
\* fill(data)?; field = Some(buffer) }`, the body the three update methods
\* share.  `field` is the Option<EngineBuffer> as the call found it.
update_buffer(G, field, data, size, usage, outcome) ==
    IF field # <<>>
    THEN LET f == fill(field[1], G, data, size, outcome)
         IN [buf |-> f.buf, gpu |-> f.gpu, events |-> f.events,
             payload |-> data, ret |-> f.ret]
    ELSE LET bytes == Len(data) * size
             n == EngineBuffer_new(G, bytes, usage, "CpuToGpu", outcome)
         IN IF n.ret = Panic
            THEN [buf |-> <<>>, gpu |-> n.gpu, events |-> n.events,
                  payload |-> <<>>, ret |-> Panic]
            ELSE LET f == fill(n.buf[1], n.gpu, data, size, outcome)
                 IN [buf |-> IF f.ret = Panic THEN <<>> ELSE f.buf,
                     gpu |-> f.gpu, events |-> n.events \o f.events,
                     payload |-> data, ret |-> f.ret]

update_vertex_buffer(S, G, outcome) ==
    LET u == update_buffer(G, S.vertex_buffer, vertex_data, SizeOf,
                           "VERTEX_BUFFER", outcome)
    IN [store |-> [S EXCEPT !.vertex_buffer = u.buf], gpu |-> u.gpu,
        events |-> u.events, payload |-> u.payload, ret |-> u.ret]

update_index_buffer(S, G, outcome) ==
    LET u == update_buffer(G, S.index_buffer, index_data, SizeOfU32,
                           "INDEX_BUFFER", outcome)
    IN [store |-> [S EXCEPT !.index_buffer = u.buf], gpu |-> u.gpu,
        events |-> u.events, payload |-> u.payload, ret |-> u.ret]

update_instance_buffer(S, G, outcome) ==
    IF S.first_invisible > Len(S.instances)
    THEN \* &self.instances[0..self.first_invisible] panics: in the else
         \* branch the buffer EngineBuffer::new has just made is lost with it.
         IF S.instance_buffer # <<>>
         THEN [store |-> S, gpu |-> G, events |-> <<>>, payload |-> <<>>,
               ret |-> Panic]
         ELSE LET n == EngineBuffer_new(G, S.first_invisible * SizeOf,
                                        "VERTEX_BUFFER", "CpuToGpu", outcome)
              IN [store |-> S, gpu |-> n.gpu, events |-> n.events,
                  payload |-> <<>>, ret |-> Panic]
    ELSE LET u == update_buffer(G, S.instance_buffer,
                                SubSeq(S.instances, 1, S.first_invisible),
                                SizeOf, "VERTEX_BUFFER", outcome)
         IN [store |-> [S EXCEPT !.instance_buffer = u.buf], gpu |-> u.gpu,
             events |-> u.events, payload |-> u.payload, ret |-> u.ret]

\* One command recorded into the command buffer.
Bind(cmd, binding, buffer) ==
    [cmd |-> cmd, binding |-> binding, buffer |-> buffer,
     index_count |-> 0, instance_count |-> 0]

DrawIndexed(index_count, instance_count) ==
    [cmd |-> "cmd_draw_indexed", binding |-> 0, buffer |-> 0,
     index_count |-> index_count, instance_count |-> instance_count]

\* draw without the `first_invisible > 0` test.
draw_zero_instances(S) ==
    IF S.vertex_buffer # <<>> /\ S.index_buffer # <<>> /\ S.instance_buffer # <<>>
    THEN << Bind("cmd_bind_vertex_buffers", 0, S.vertex_buffer[1].buffer),
            Bind("cmd_bind_vertex_buffers", 1, S.instance_buffer[1].buffer),
            Bind("cmd_bind_index_buffer", 0, S.index_buffer[1].buffer),
            DrawIndexed(Len(index_data), S.first_invisible) >>
    ELSE <<>>

\* The commands draw records.  The two `as u32` casts truncate from 2^32 on;
\* the Vec lengths of a run stay below MaxHandles and index_data has 6 entries.
draw(S) ==
    IF /\ S.vertex_buffer # <<>> /\ S.index_buffer # <<>> /\ S.instance_buffer # <<>>
       /\ S.first_invisible > 0
    THEN << Bind("cmd_bind_vertex_buffers", 0, S.vertex_buffer[1].buffer),
            Bind("cmd_bind_vertex_buffers", 1, S.instance_buffer[1].buffer),
            Bind("cmd_bind_index_buffer", 0, S.index_buffer[1].buffer),
            DrawIndexed(Len(index_data), S.first_invisible) >>
    ELSE <<>>

----------------------------------------------------------------------------
\* The state machine: one action per public call.

Init ==
    /\ handles = <<>>
    /\ instances = <<>>
    /\ handle_to_index = EmptyMap
    /\ first_invisible = 0
    /\ next_handle = 0
    /\ aborted = FALSE
    /\ op = "new"
    /\ arg = <<>>
    /\ elem = 0
    /\ ret = Ok(Unit)
    /\ pre = EmptyStore
    /\ inserted = EmptyMap
    /\ returned = <<>>
    /\ removed = {}
    /\ calls = 0
    /\ preLive = {}
    /\ vertex_buffer = <<>>
    /\ index_buffer = <<>>
    /\ instance_buffer = <<>>
    /\ gpu = EmptyGpu
    /\ preGpu = EmptyGpu
    /\ events = <<>>
    /\ commands = <<>>
    /\ payload = <<>>
    /\ buf = <<>>
    /\ preBuf = <<>>
    /\ cap0 = 0
    /\ fills = <<>>
    /\ held = {}
    /\ engine = <<>>
    /\ preEngine = <<>>
    /\ lights = [directional_lights |-> <<>>, point_lights |-> <<>>]
    /\ log = <<>>
    /\ swapchain = <<>>
    /\ executing = <<>>
    /\ busyAtWrite = {}

\* Handles an insert has returned and no remove has returned Ok for.
Issued(rs) == {rs[k] : k \in 1..Len(rs)}

Live == Issued(returned) \ removed

\* The records the caller may pass to its next insert / insert_visibly.  The
\* store never inspects a record (I is an unconstrained type parameter), so
\* the caller's records are taken pairwise distinct, which lets every mix-up
\* of two records show: the record after k returned inserts is 10 + k.
Records == {10 + Len(returned)}

\* Commit the outcome r of the call `name`; a panic leaves the store as the
\* call found it and ends the run.
Commit(name, args, element, r) ==
    /\ calls < MaxCalls
    /\ calls' = calls + 1
    /\ op' = name
    /\ arg' = args
    /\ elem' = element
    /\ ret' = r.ret
    /\ pre' = St
    /\ preLive' = Live
    /\ aborted' = (r.ret = Panic)
    /\ handles' = r.store.handles
    /\ instances' = r.store.instances
    /\ handle_to_index' = r.store.handle_to_index
    /\ first_invisible' = r.store.first_invisible
    /\ next_handle' = r.store.next_handle
    /\ vertex_buffer' = r.store.vertex_buffer
    /\ index_buffer' = r.store.index_buffer
    /\ instance_buffer' = r.store.instance_buffer
    /\ events' = <<>>
    /\ commands' = <<>>
    /\ payload' = <<>>
    /\ preGpu' = gpu
    /\ UNCHANGED gpu
    /\ UNCHANGED bufVars
    /\ UNCHANGED hostVars

Insert ==
    /\ ~aborted
    /\ next_handle < MaxHandles
    /\ \E element \in Records :
         LET r == insert(St, element)
         IN /\ Commit("insert", <<>>, element, r)
            /\ inserted' = MapInsert(inserted, r.ret.val, element)
            /\ returned' = Append(returned, r.ret.val)
            /\ UNCHANGED removed

InsertVisibly ==
    /\ ~aborted
    /\ next_handle < MaxHandles
    /\ \E element \in Records :
         LET r == insert_visibly(St, element)
         IN /\ Commit("insert_visibly", <<>>, element, r)
            /\ inserted' = IF r.ret = Panic THEN inserted
                           ELSE MapInsert(inserted, r.ret.val, element)
            /\ returned' = IF r.ret = Panic THEN returned
                           ELSE Append(returned, r.ret.val)
            /\ UNCHANGED removed

Remove ==
    /\ ~aborted
    /\ \E handle \in HandleArgs :
         LET r == remove(St, handle)
         IN /\ Commit("remove", <<handle>>, 0, r)
            /\ removed' = IF r.ret.tag = "Ok" THEN removed \cup {handle} ELSE removed
            /\ UNCHANGED <<inserted, returned>>

MakeVisible ==
    /\ ~aborted
    /\ \E handle \in HandleArgs :
         /\ Commit("make_visible", <<handle>>, 0, make_visible(St, handle))
         /\ UNCHANGED <<inserted, returned, removed>>

MakeInvisible ==
    /\ ~aborted
    /\ \E handle \in HandleArgs :
         /\ Commit("make_invisible", <<handle>>, 0, make_invisible(St, handle))
         /\ UNCHANGED <<inserted, returned, removed>>

SwapByHandle ==
    /\ ~aborted
    /\ \E h1 \in HandleArgs, h2 \in HandleArgs :
         /\ Commit("swap_by_handle", <<h1, h2>>, 0, swap_by_handle(St, h1, h2))
         /\ UNCHANGED <<inserted, returned, removed>>

\* One EngineBuffer on its own: new, fill, cleanup.

BufSizes == 0..(MaxFillLen * SizeOf)

BufUsages == {"UNIFORM_BUFFER", "STORAGE_BUFFER"}

\* Payloads of up to MaxFillLen elements.
FillElems == {1, 2}

FillData == UNION {[1..n -> FillElems] : n \in 0..MaxFillLen}

\* Commit the outcome r of the call `name` on the EngineBuffer under test;
\* args holds what the device and the allocator answered to the call.
BufCommit(name, args, data, r) ==
    /\ calls < MaxBufCalls
    /\ calls' = calls + 1
    /\ op' = name
    /\ arg' = args
    /\ elem' = 0
    /\ payload' = data
    /\ ret' = r.ret
    /\ aborted' = (r.ret = Panic)
    /\ preBuf' = buf
    /\ buf' = r.buf
    /\ preGpu' = gpu
    /\ gpu' = r.gpu
    /\ events' = r.events
    /\ commands' = <<>>
    /\ UNCHANGED storeVars
    /\ UNCHANGED hostVars

BufNew ==
    /\ ~aborted
    /\ buf = <<>>
    /\ \E size \in BufSizes, usage \in BufUsages,
          memory_usage \in MemoryLocations, outcome \in Outcomes :
         LET r == EngineBuffer_new(gpu, size, usage, memory_usage, outcome)
         IN /\ BufCommit("new", <<outcome>>, <<>>, r)
            /\ cap0' = size
            /\ UNCHANGED fills

BufFill ==
    /\ ~aborted
    /\ buf # <<>>
    /\ \E data \in FillData, outcome \in Outcomes :
         LET r == fill(buf[1], gpu, data, SizeOf, outcome)
         IN /\ BufCommit("fill", <<outcome>>, data, r)
            /\ fills' = IF r.ret.tag = "Ok" THEN Append(fills, Len(data) * SizeOf)
                         ELSE fills
            /\ UNCHANGED cap0

BufCleanup ==
    /\ ~aborted
    /\ buf # <<>>
    /\ BufCommit("cleanup", <<>>, <<>>, cleanup(buf[1], gpu))
    /\ UNCHANGED <<cap0, fills>>

NextBuffer ==
    \/ BufNew
    \/ BufFill
    \/ BufCleanup

SpecBuffer == Init /\ [][NextBuffer]_vars

Next ==
    \/ Insert
    \/ InsertVisibly
    \/ Remove
    \/ MakeVisible
    \/ MakeInvisible
    \/ SwapByHandle

Spec == Init /\ [][Next]_vars

\* Only insert / remove / make_visible / make_invisible are called.
NextCore ==
    \/ Insert
    \/ Remove
    \/ MakeVisible
    \/ MakeInvisible

SpecCore == Init /\ [][NextCore]_vars

\* The store together with its buffers: every store call, the three updates
\* and draw, in runs of at most MaxGpuRun calls.

GpuRun == calls < MaxGpuRun

\* Commit the outcome r of an update or of draw.
GpuCommit(name, r, cmds) ==
    /\ GpuRun
    /\ calls' = calls + 1
    /\ op' = name
    /\ arg' = <<>>
    /\ elem' = 0
    /\ ret' = r.ret
    /\ pre' = St
    /\ preLive' = Live
    /\ aborted' = (r.ret = Panic)
    /\ handles' = r.store.handles
    /\ instances' = r.store.instances
    /\ handle_to_index' = r.store.handle_to_index
    /\ first_invisible' = r.store.first_invisible
    /\ next_handle' = r.store.next_handle
    /\ vertex_buffer' = r.store.vertex_buffer
    /\ index_buffer' = r.store.index_buffer
    /\ instance_buffer' = r.store.instance_buffer
    /\ preGpu' = gpu
    /\ gpu' = r.gpu
    /\ events' = r.events
    /\ commands' = cmds
    /\ payload' = r.payload
    /\ UNCHANGED <<inserted, returned, removed>>
    /\ UNCHANGED bufVars
    /\ UNCHANGED hostVars

UpdateVertexBuffer ==
    /\ ~aborted
    /\ \E outcome \in Outcomes :
         GpuCommit("update_vertex_buffer", update_vertex_buffer(St, gpu, outcome), <<>>)

UpdateIndexBuffer ==
    /\ ~aborted
    /\ \E outcome \in Outcomes :
         GpuCommit("update_index_buffer", update_index_buffer(St, gpu, outcome), <<>>)

UpdateInstanceBuffer ==
    /\ ~aborted
    /\ \E outcome \in Outcomes :
         GpuCommit("update_instance_buffer",
                   update_instance_buffer(St, gpu, outcome), <<>>)

Draw ==
    /\ ~aborted
    /\ GpuCommit("draw", [store |-> St, gpu |-> gpu, events |-> <<>>,
                          payload |-> <<>>, ret |-> Ok(Unit)], draw(St))

NextGpu ==
    \/ GpuRun /\ Insert
    \/ GpuRun /\ InsertVisibly
    \/ GpuRun /\ Remove
    \/ GpuRun /\ MakeVisible
    \/ GpuRun /\ MakeInvisible
    \/ GpuRun /\ SwapByHandle
    \/ UpdateVertexBuffer
    \/ UpdateIndexBuffer
    \/ UpdateInstanceBuffer
    \/ Draw

SpecGpu == Init /\ [][NextGpu]_vars

\* VkAllocator on its own: allocate_buffer, allocate_image, free.

AllocSizes == 1..2

\* Commit the outcome r of the call `name` on VkAllocator.
AllocCommit(name, args, r) ==
    /\ calls < MaxAllocCalls
    /\ calls' = calls + 1
    /\ op' = name
    /\ arg' = args
    /\ ret' = r.ret
    /\ aborted' = (r.ret = Panic)
    /\ preGpu' = gpu
    /\ gpu' = r.gpu
    /\ events' = r.events
    /\ UNCHANGED <<elem, commands, payload>>
    /\ UNCHANGED storeVars
    /\ UNCHANGED bufVars
    /\ UNCHANGED <<engine, preEngine, lights, log>>
    /\ UNCHANGED <<swapchain, executing, busyAtWrite>>

AllocateBuffer ==
    /\ ~aborted
    /\ \E size \in AllocSizes, outcome \in Outcomes :
         LET r == allocate_buffer(gpu, size, outcome)
         IN /\ AllocCommit("allocate_buffer", <<outcome>>, r)
            /\ held' = IF r.ret.tag = "Ok"
                       THEN held \cup {[kind |-> "buffer", resource |-> r.ret.val[1],
                                        allocation |-> r.ret.val[2]]}
                       ELSE held

AllocateImage ==
    /\ ~aborted
    /\ \E size \in AllocSizes, outcome \in Outcomes :
         LET r == allocate_image(gpu, size, outcome)
         IN /\ AllocCommit("allocate_image", <<outcome>>, r)
            /\ held' = IF r.ret.tag = "Ok"
                       THEN held \cup {[kind |-> "image", resource |-> r.ret.val[1],
                                        allocation |-> r.ret.val[2]]}
                       ELSE held

Free ==
    /\ ~aborted
    /\ \E h \in held :
         /\ AllocCommit("free", <<>>, free(gpu, h.kind, h.resource, h.allocation))
         /\ held' = held \ {h}

NextAllocator ==
    \/ AllocateBuffer
    \/ AllocateImage
    \/ Free

SpecAllocator == Init /\ [][NextAllocator]_vars

----------------------------------------------------------------------------
\* LightManager (src/engine/light.rs)

\* The lights a caller may add.
DirectionalLights == {[direction |-> <<1, 0, 0>>, illuminance |-> <<1, 1, 1>>]}

PointLights == {[position |-> <<0, 1, 0>>, luminous_flux |-> <<2, 2, 2>>]}

add_directional_light(L, dl) ==
    [L EXCEPT !.directional_lights = Append(L.directional_lights, dl)]

add_point_light(L, pl) ==
    [L EXCEPT !.point_lights = Append(L.point_lights, pl)]

\* The eight floats update_buffer pushes for each directional light.
RECURSIVE directional_data(_)
directional_data(dls) ==
    IF dls = <<>> THEN <<>>
    ELSE LET dl == Head(dls)
         IN <<dl.direction[1], dl.direction[2], dl.direction[3], 0,
              dl.illuminance[1], dl.illuminance[2], dl.illuminance[3], 0>>
            \o directional_data(Tail(dls))

\* The eight floats update_buffer pushes for each point light.
RECURSIVE point_data(_)
point_data(pls) ==
    IF pls = <<>> THEN <<>>
    ELSE LET pl == Head(pls)
         IN <<pl.position[1], pl.position[2], pl.position[3], 0,
              pl.luminous_flux[1], pl.luminous_flux[2], pl.luminous_flux[3], 0>>
            \o point_data(Tail(pls))

\* The Vec<f32> update_buffer builds.
light_data(L) ==
    <<Len(L.directional_lights), Len(L.point_lights), 0, 0>>
    \o directional_data(L.directional_lights) \o point_data(L.point_lights)

\* device.update_descriptor_sets on each set, with buffer B.buffer.
write_descriptor_sets(sets, B) == [k \in 1..Len(sets) |-> B.buffer]

descriptor_writes(sets, B) ==
    [k \in 1..Len(sets) |-> Event("update_descriptor_sets", B.buffer)]

\* update_buffer that never rewrites the descriptor sets.
LightManager_update_buffer_no_rewrite(L, G, B, sets, outcome) ==
    LET data == light_data(L)
        f == fill(B, G, data, SizeOfF32, outcome)
    IN [buf |-> f.buf, sets |-> sets, gpu |-> f.gpu, events |-> f.events,
        payload |-> data, ret |-> f.ret]

\* LightManager::update_buffer on the EngineBuffer B and the descriptor sets
\* `sets`; yields [buf, sets, gpu, events, payload, ret].
LightManager_update_buffer(L, G, B, sets, outcome) ==
    LET data == light_data(L)
        old_size == B.size_in_bytes
        f == fill(B, G, data, SizeOfF32, outcome)
    IN IF f.ret.tag # "Ok"
       THEN [buf |-> f.buf, sets |-> sets, gpu |-> f.gpu, events |-> f.events,
             payload |-> data, ret |-> f.ret]
       ELSE IF old_size # f.buf[1].size_in_bytes
       THEN [buf |-> f.buf, sets |-> write_descriptor_sets(sets, f.buf[1]),
             gpu |-> f.gpu,
             events |-> f.events \o descriptor_writes(sets, f.buf[1]),
             payload |-> data, ret |-> Ok(Unit)]
       ELSE [buf |-> f.buf, sets |-> sets, gpu |-> f.gpu, events |-> f.events,
             payload |-> data, ret |-> Ok(Unit)]

----------------------------------------------------------------------------
\* VulkanEngine (src/engine/mod.rs) and EngineSwapchain (src/engine/swapchain.rs)

\* The part of EngineSwapchain::init that makes the depth image; yields
\* [swapchain, gpu, events, ret].
EngineSwapchain_init(G, amount_of_images, outcome) ==
    IF outcome = "create_buffer_fails"
    THEN [swapchain |-> <<>>, gpu |-> G, events |-> <<>>, ret |-> Err]      \* create_image(..)?
    ELSE
    LET depth_image == G.next_id
        G1 == [G EXCEPT !.images = G.images \cup {depth_image},
                        !.next_id = G.next_id + 1]
        ev1 == <<Event("create_image", depth_image)>>
    IN IF outcome = "allocate_fails"
       THEN [swapchain |-> <<>>, gpu |-> G1, events |-> ev1, ret |-> Panic]  \* allocate(..).unwrap()
       ELSE
       LET allocation == G1.next_id
           G2 == [G1 EXCEPT !.allocations = G1.allocations \cup {allocation},
                            !.mem = MapInsert(G1.mem, allocation, <<>>),
                            !.next_id = G1.next_id + 1]
           ev2 == Append(ev1, Event("allocate", allocation))
       IN IF outcome = "bind_fails"
          THEN [swapchain |-> <<>>, gpu |-> G2, events |-> ev2, ret |-> Err] \* bind_image_memory(..)?
          ELSE [swapchain |-> <<[depth_image |-> depth_image,
                                 depth_image_allocation |-> allocation,
                                 amount_of_images |-> amount_of_images]>>,
                gpu |-> G2,
                events |-> Append(ev2, Event("bind_image_memory", depth_image)),
                ret |-> Ok(Unit)]

\* EngineSwapchain::cleanup: the depth image is destroyed, its allocation is
\* not named.
EngineSwapchain_cleanup(SW, G) ==
    [gpu |-> [G EXCEPT !.images = G.images \ {SW.depth_image}],
     events |-> <<Event("destroy_image_view", SW.depth_image),
                  Event("destroy_image", SW.depth_image),
                  Event("destroy_swapchain", 0)>>]

\* The two identity matrices VulkanEngine::init writes to the uniform buffer.
camera_transforms == <<1, 1>>

\* VulkanEngine::init: swapchain, uniform buffer (128 bytes) and its fill,
\* light buffer (8 bytes), its fill with &[0., 0.], and the first write of the
\* light descriptor sets.  Yields [engine, gpu, events, ret].
VulkanEngine_init(G, amount_of_images, depth_outcome, uniform_outcome, light_outcome) ==
    LET sw == EngineSwapchain_init(G, amount_of_images, depth_outcome)
    IN IF sw.ret.tag # "Ok"
       THEN [engine |-> <<>>, gpu |-> sw.gpu, events |-> sw.events, ret |-> sw.ret]
       ELSE
    LET u == EngineBuffer_new(sw.gpu, 2 * SizeOfMat4, "UNIFORM_BUFFER", "CpuToGpu",
                              uniform_outcome)
    IN IF u.ret.tag # "Ok"
       THEN [engine |-> <<>>, gpu |-> u.gpu, events |-> sw.events \o u.events,
             ret |-> Panic]
       ELSE
    LET uf == fill(u.buf[1], u.gpu, camera_transforms, SizeOfMat4, uniform_outcome)
        l == EngineBuffer_new(uf.gpu, 8, "STORAGE_BUFFER", "CpuToGpu", light_outcome)
        ev3 == sw.events \o u.events \o uf.events
    IN IF uf.ret.tag # "Ok" \/ l.ret.tag # "Ok"
       THEN [engine |-> <<>>, gpu |-> l.gpu, events |-> ev3 \o l.events, ret |-> Panic]
       ELSE
    LET lf == fill(l.buf[1], l.gpu, <<0, 0>>, SizeOfF64, light_outcome)
        ev4 == ev3 \o l.events \o lf.events
    IN IF lf.ret.tag # "Ok"
       THEN [engine |-> <<>>, gpu |-> lf.gpu, events |-> ev4, ret |-> Panic]
       ELSE
    LET sets == [k \in 1..amount_of_images |-> 0]
    IN [engine |-> <<[swapchain |-> sw.swapchain[1],
                      uniform_buffer |-> uf.buf[1],
                      light_buffer |-> lf.buf[1],
                      descriptor_sets_light |-> write_descriptor_sets(sets, lf.buf[1]),
                      models |-> <<>>,
                      allocator |-> "alive",
                      device |-> "alive"]>>,
        gpu |-> lf.gpu,
        events |-> ev4 \o descriptor_writes(sets, lf.buf[1]),
        ret |-> Ok(Unit)]

\* The buffers of the models in the order drop visits them: for each model
\* its vertex, index and instance buffer, those that are Some.
RECURSIVE model_buffers(_)
model_buffers(ms) ==
    IF ms = <<>> THEN <<>>
    ELSE Head(ms).vertex_buffer \o Head(ms).index_buffer \o Head(ms).instance_buffer
         \o model_buffers(Tail(ms))

\* cleanup on each buffer of bs in turn, stopping at the first that panics.
RECURSIVE cleanup_each(_, _, _)
cleanup_each(bs, G, ev) ==
    IF bs = <<>> THEN [gpu |-> G, events |-> ev, ret |-> Ok(Unit)]
    ELSE LET c == cleanup(Head(bs), G)
         IN IF c.ret = Panic
            THEN [gpu |-> c.gpu, events |-> ev \o c.events, ret |-> Panic]
            ELSE cleanup_each(Tail(bs), c.gpu, ev \o c.events)

\* What drop does once the allocator is gone.
drop_tail(E, G) ==
    LET sc == EngineSwapchain_cleanup(E.swapchain, G)
    IN [gpu |-> sc.gpu,
        events |-> <<Event("pools_cleanup", 0), Event("pipeline_cleanup", 0),
                     Event("destroy_render_pass", 0)>>
                   \o sc.events
                   \o <<Event("drop_surfaces", 0), Event("drop_debug", 0),
                        Event("destroy_device", 0), Event("destroy_instance", 0)>>]

\* drop that lets go of the allocator before it cleans up the model buffers.
VulkanEngine_drop_allocator_early(E, G, idle) ==
    IF idle # "ok"
    THEN [engine |-> <<E>>, gpu |-> G, events |-> <<>>, ret |-> Panic]
    ELSE
    LET ev0 == <<Event("device_wait_idle", 0)>>
        c1 == cleanup_each(<<E.light_buffer>>, G, ev0)
        ev1 == Append(c1.events, Event("destroy_descriptor_pool", 0))
        c2 == cleanup_each(<<E.uniform_buffer>>, c1.gpu, ev1)
        c3 == cleanup_each(model_buffers(E.models), c2.gpu,
                           Append(c2.events, Event("allocator_drop", 0)))
        t == drop_tail(E, c3.gpu)
    IN IF c1.ret = Panic
       THEN [engine |-> <<E>>, gpu |-> c1.gpu, events |-> c1.events, ret |-> Panic]
       ELSE IF c2.ret = Panic
       THEN [engine |-> <<E>>, gpu |-> c2.gpu, events |-> c2.events, ret |-> Panic]
       ELSE IF c3.ret = Panic
       THEN [engine |-> <<E>>, gpu |-> c3.gpu, events |-> c3.events, ret |-> Panic]
       ELSE [engine |-> <<[E EXCEPT !.allocator = "dropped", !.device = "destroyed"]>>,
             gpu |-> t.gpu,
             events |-> c3.events \o t.events,
             ret |-> Ok(Unit)]

\* impl Drop for VulkanEngine; yields [engine, gpu, events, ret].  idle is
\* what device_wait_idle answers.
VulkanEngine_drop(E, G, idle) ==
    IF idle # "ok"
    THEN [engine |-> <<E>>, gpu |-> G, events |-> <<>>, ret |-> Panic]    \* .expect("Failed to wait?")
    ELSE
    LET ev0 == <<Event("device_wait_idle", 0)>>
        c1 == cleanup_each(<<E.light_buffer>>, G, ev0)
        ev1 == Append(c1.events, Event("destroy_descriptor_pool", 0))
        c2 == cleanup_each(<<E.uniform_buffer>>, c1.gpu, ev1)
        c3 == cleanup_each(model_buffers(E.models), c2.gpu, c2.events)
        t == drop_tail(E, c3.gpu)
    IN IF c1.ret = Panic
       THEN [engine |-> <<E>>, gpu |-> c1.gpu, events |-> c1.events, ret |-> Panic]
       ELSE IF c2.ret = Panic
       THEN [engine |-> <<E>>, gpu |-> c2.gpu, events |-> c2.events, ret |-> Panic]
       ELSE IF c3.ret = Panic
       THEN [engine |-> <<E>>, gpu |-> c3.gpu, events |-> c3.events, ret |-> Panic]
       ELSE [engine |-> <<[E EXCEPT !.allocator = "dropped", !.device = "destroyed"]>>,
             gpu |-> t.gpu,
             events |-> Append(c3.events, Event("allocator_drop", 0)) \o t.events,
             ret |-> Ok(Unit)]

\* What main does with a model before it hands it to the engine: k visible
\* records, then the updates named in `which`, each unwrapped.  Yields
\* [store, gpu, events, ret].
RECURSIVE insert_visibly_times(_, _)
insert_visibly_times(S, k) ==
    IF k = 0 THEN S
    ELSE insert_visibly_times(insert_visibly(S, 10 + S.next_handle).store, k - 1)

\* One of the updates main runs on the model, unwrapped: r is what came
\* before it, u what the update yields, wanted whether main calls it at all.
update_unwrapped(r, wanted, u) ==
    IF r.ret.tag # "Ok" \/ ~wanted THEN r
    ELSE [store |-> u.store, gpu |-> u.gpu, events |-> r.events \o u.events,
          ret |-> IF u.ret.tag = "Ok" THEN Ok(Unit) ELSE Panic]

\* Each update starts from the finished result of the one before it.
prepare_model(G, k, which, outcome) ==
    CHOOSE r \in
      {update_unwrapped(r2, "instance_buffer" \in which,
                        update_instance_buffer(r2.store, r2.gpu, outcome)) : r2 \in
        {update_unwrapped(r1, "index_buffer" \in which,
                          update_index_buffer(r1.store, r1.gpu, outcome)) : r1 \in
          {update_unwrapped(r0, "vertex_buffer" \in which,
                            update_vertex_buffer(r0.store, r0.gpu, outcome)) : r0 \in
            {[store |-> insert_visibly_times(EmptyStore, k), gpu |-> G,
              events |-> <<>>, ret |-> Ok(Unit)]}}}} : TRUE

\* The engine through its life: init, lights, models, light updates, drop.

AmountsOfImages == 2..3

ModelBuffers == {"vertex_buffer", "index_buffer", "instance_buffer"}

\* What device_wait_idle answers to drop.
IdleOutcomes == {"ok", "device_lost"}

\* The engine exists and drop has not started.
EngineRunning == engine # <<>> /\ ~aborted /\ op # "drop"

\* Commit the outcome of the engine call `name`: e is the engine after it,
\* r its [gpu, events, ret].
EngineCommit(name, args, e, r) ==
    /\ calls < MaxEngineCalls
    /\ calls' = calls + 1
    /\ op' = name
    /\ arg' = args
    /\ ret' = r.ret
    /\ aborted' = (r.ret.tag # "Ok")
    /\ preGpu' = gpu
    /\ gpu' = r.gpu
    /\ events' = r.events
    /\ log' = log \o r.events
    /\ preEngine' = engine
    /\ engine' = e
    /\ UNCHANGED <<elem, commands>>
    /\ UNCHANGED storeVars
    /\ UNCHANGED bufVars
    /\ UNCHANGED held
    /\ UNCHANGED <<swapchain, executing, busyAtWrite>>

EngineInit ==
    /\ engine = <<>>
    /\ calls = 0
    /\ \E amount_of_images \in AmountsOfImages,
          depth_outcome \in Outcomes, uniform_outcome \in Outcomes,
          light_outcome \in Outcomes :
         LET r == VulkanEngine_init(gpu, amount_of_images, depth_outcome,
                                    uniform_outcome, light_outcome)
         IN /\ EngineCommit("init", <<depth_outcome, uniform_outcome, light_outcome>>,
                            r.engine, r)
            /\ UNCHANGED <<lights, payload>>

AddDirectionalLight ==
    /\ EngineRunning
    /\ Len(lights.directional_lights) + Len(lights.point_lights) < MaxLights
    /\ \E dl \in DirectionalLights :
         /\ lights' = add_directional_light(lights, dl)
         /\ EngineCommit("add_light", <<>>, engine,
                         [gpu |-> gpu, events |-> <<>>, ret |-> Ok(Unit)])
         /\ UNCHANGED payload

AddPointLight ==
    /\ EngineRunning
    /\ Len(lights.directional_lights) + Len(lights.point_lights) < MaxLights
    /\ \E pl \in PointLights :
         /\ lights' = add_point_light(lights, pl)
         /\ EngineCommit("add_light", <<>>, engine,
                         [gpu |-> gpu, events |-> <<>>, ret |-> Ok(Unit)])
         /\ UNCHANGED payload

UpdateLightBuffer ==
    /\ EngineRunning
    /\ \E outcome \in Outcomes :
         LET E == engine[1]
             r == LightManager_update_buffer(lights, gpu, E.light_buffer,
                                             E.descriptor_sets_light, outcome)
         IN /\ EngineCommit("update_buffer", <<outcome>>,
                            <<[E EXCEPT !.light_buffer = r.buf[1],
                                        !.descriptor_sets_light = r.sets]>>, r)
            /\ payload' = r.payload
            /\ UNCHANGED lights

AddModel ==
    /\ EngineRunning
    /\ Len(engine[1].models) < MaxModels
    /\ \E k \in 0..1, which \in SUBSET ModelBuffers, outcome \in Outcomes :
         \E r \in {prepare_model(gpu, k, which, outcome)} :
            /\ EngineCommit("add_model", <<outcome>>,
                            IF r.ret.tag = "Ok"
                            THEN <<[engine[1] EXCEPT
                                      !.models = Append(engine[1].models, r.store)]>>
                            ELSE engine, r)
            /\ UNCHANGED <<lights, payload>>

\* The engine is dropped when main ends, and also when a panic unwinds
\* through main in a build that unwinds.
EngineDrop ==
    /\ engine # <<>>
    /\ op # "drop"
    /\ \E idle \in IdleOutcomes :
         LET r == VulkanEngine_drop(engine[1], gpu, idle)
         IN /\ EngineCommit("drop", <<idle>>, r.engine, r)
            /\ UNCHANGED <<lights, payload>>

NextEngine ==
    \/ EngineInit
    \/ AddDirectionalLight
    \/ AddPointLight
    \/ UpdateLightBuffer
    \/ AddModel
    \/ EngineDrop

SpecEngine == Init /\ [][NextEngine]_vars

----------------------------------------------------------------------------
\* The render loop of main (src/main.rs) and the GPU queue it submits to

\* EngineSwapchain::init: one fence per image, created SIGNALED.
frames_init(amount_of_images) ==
    [amount_of_images |-> amount_of_images,
     current_image |-> 0,
     may_begin_drawing |-> [k \in 1..amount_of_images |-> "signaled"]]

calculate_current_image(SW) ==
    [SW EXCEPT !.current_image = (SW.current_image + 1) % SW.amount_of_images]

\* What acquire_next_image answers.
AcquireOutcomes == {"ok", "out_of_date"}

\* Commit one step of the render loop.
FrameCommit(name, args, r) ==
    /\ op' = name
    /\ arg' = args
    /\ ret' = r
    /\ aborted' = (r = Panic)
    /\ UNCHANGED <<elem, commands, payload, gpu, preGpu, events>>
    /\ UNCHANGED storeVars
    /\ UNCHANGED bufVars
    /\ UNCHANGED <<held, engine, preEngine, lights, log>>

SwapchainInit ==
    /\ swapchain = <<>>
    /\ ~aborted
    /\ \E amount_of_images \in AmountsOfImages :
         /\ swapchain' = <<frames_init(amount_of_images)>>
         /\ FrameCommit("swapchain_init", <<amount_of_images>>, Ok(Unit))
         /\ UNCHANGED <<calls, executing, busyAtWrite>>

\* The Event::RedrawRequested handler.  acquire_next_image and
\* wait_for_fences block with no timeout: the handler gets past them only
\* with an image that no unfinished submission renders to and once the fence
\* is signaled.
RedrawRequested ==
    /\ swapchain # <<>>
    /\ ~aborted
    /\ calls < MaxFrames
    /\ calls' = calls + 1
    /\ \E acquire \in AcquireOutcomes, image_index \in 0..(swapchain[1].amount_of_images - 1) :
         LET SW == calculate_current_image(swapchain[1])
             slot == SW.current_image
         IN IF acquire # "ok"
            THEN /\ swapchain' = <<SW>>
                 /\ FrameCommit("redraw", <<slot, image_index>>, Panic)   \* .expect("Failed to acquire next image")
                 /\ UNCHANGED <<executing, busyAtWrite>>
            ELSE /\ \A k \in 1..Len(executing) : executing[k].image_index # image_index
                 /\ SW.may_begin_drawing[slot + 1] = "signaled"
                 /\ busyAtWrite' = {executing[k] : k \in 1..Len(executing)}
                 /\ executing' = Append(executing, [current_image |-> slot,
                                                    image_index |-> image_index])
                 /\ swapchain' = <<[SW EXCEPT !.may_begin_drawing[slot + 1] = "unsignaled"]>>
                 /\ FrameCommit("redraw", <<slot, image_index>>, Ok(Unit))

\* The GPU finishes the oldest submission on the graphics queue and signals
\* the fence that was given to queue_submit with it.
GpuFinish ==
    /\ executing # <<>>
    /\ ~aborted
    /\ executing' = Tail(executing)
    /\ swapchain' = <<[swapchain[1] EXCEPT
                          !.may_begin_drawing[Head(executing).current_image + 1] = "signaled"]>>
    /\ FrameCommit("gpu_finish", <<Head(executing).current_image>>, Ok(Unit))
    /\ UNCHANGED <<calls, busyAtWrite>>

NextFrames ==
    \/ SwapchainInit
    \/ RedrawRequested
    \/ GpuFinish

SpecFrames == Init /\ [][NextFrames]_vars

----------------------------------------------------------------------------
\* Vocabulary of the properties

DenseIndices == 0..(Len(handles) - 1)

Inserts == {"insert", "insert_visibly"}

----------------------------------------------------------------------------
\* C1 (partition invariant): after every insert / remove / make_visible /
\* make_invisible call, the handle at each dense index i reports
\* is_visible == Ok(true) when i < first_invisible and Ok(false) otherwise.
C1_PartitionInvariant ==
    \A i \in DenseIndices :
        is_visible(St, At(handles, i)) = Ok(i < first_invisible)

\* C2 (map consistency): after every mutating call, for every dense index i,
\* handle_to_index[handles[i]] == i.
C2_MapConsistency ==
    \A i \in DenseIndices :
        /\ MapHas(handle_to_index, At(handles, i))
        /\ handle_to_index[At(handles, i)] = i

\* C3 (handle stability): for every handle h returned by an insert and not
\* removed, get(h) is Some of exactly the record inserted under h.
C3_HandleStability ==
    \A h \in Live : get(St, h) = Some(inserted[h])

\* C4 (remove returns the record): remove(h) on a live handle h returns Ok
\* with the record inserted under h, whether h is visible or not and whatever
\* its dense position, and the dense arrays then hold one entry fewer, none
\* of them for h.
C4_RemoveReturnsRecord ==
    (op = "remove" /\ arg[1] \in preLive) =>
        /\ ret = Ok(inserted[arg[1]])
        /\ Len(handles) = Len(pre.handles) - 1
        /\ Len(instances) = Len(pre.instances) - 1
        /\ \A i \in DenseIndices : At(handles, i) # arg[1]

\* C5 (removed is terminal): once remove(h) has returned Ok, get(h) (and
\* get_mut(h), the same lookup) is None and is_visible(h), make_visible(h),
\* make_invisible(h), remove(h) and swap_by_handle(h, g) with g # h return
\* Err(InvalidHandle), whatever calls on other handles came in between.
C5_RemovedIsTerminal ==
    \A h \in removed :
        /\ get(St, h) = None
        /\ is_visible(St, h) = Err
        /\ make_visible(St, h).ret = Err
        /\ make_invisible(St, h).ret = Err
        /\ remove(St, h).ret = Err
        /\ \A g \in HandleArgs \ {h} : swap_by_handle(St, h, g).ret = Err

\* C6 (handle uniqueness): in any interleaving of calls, each insert returns
\* a handle strictly greater than every handle returned before; counting
\* from zero the k-th insert returns k; so no handle is returned twice, also
\* not after its removal.
C6_HandleUniqueness ==
    /\ \A k \in 1..Len(returned) : returned[k] = k - 1
    /\ \A i, j \in 1..Len(returned) : i < j => returned[i] < returned[j]
    /\ (op \in Inserts /\ ret.tag = "Ok") =>
            /\ ret.val \notin preLive
            /\ ret.val \notin removed
            /\ \A k \in 1..(Len(returned) - 1) : returned[k] < ret.val

\* C6 witness: an insert has returned a handle after two earlier inserts and
\* a removal.
C6_Witness ==
    /\ op \in Inserts
    /\ ret.tag = "Ok"
    /\ Len(returned) = 3
    /\ removed # {}

\* C7 (frame of remove): remove(h) on a live handle decreases first_invisible
\* by one when h was visible and leaves it unchanged when h was invisible,
\* and get(g) and is_visible(g) are unchanged for every other live handle g.
C7_RemoveFrame ==
    (op = "remove" /\ arg[1] \in preLive /\ ret.tag = "Ok") =>
        /\ first_invisible =
               pre.first_invisible
                 - (IF is_visible(pre, arg[1]) = Ok(TRUE) THEN 1 ELSE 0)
        /\ \A g \in preLive \ {arg[1]} :
               /\ get(St, g) = get(pre, g)
               /\ is_visible(St, g) = is_visible(pre, g)

\* C8 (make_visible / make_invisible): make_visible(h) on a live handle
\* returns Ok, afterwards is_visible(h) == Ok(true), and first_invisible has
\* grown by one if h was invisible and is unchanged if h was visible;
\* make_invisible(h) symmetrically.  After inserting handles 0, 1, 2,
\* make_visible(1) gives first_invisible == 1 with handle 1 at dense index 0.
C8_Scenario ==
    (/\ op = "make_visible"
     /\ arg = <<1>>
     /\ pre.handles = <<0, 1, 2>>
     /\ pre.handle_to_index = [h \in 0..2 |-> h]
     /\ pre.first_invisible = 0) =>
        /\ first_invisible = 1
        /\ At(handles, 0) = 1

C8_MakeVisibleInvisible ==
    /\ (op = "make_visible" /\ arg[1] \in preLive) =>
            /\ ret = Ok(Unit)
            /\ is_visible(St, arg[1]) = Ok(TRUE)
            /\ first_invisible =
                   pre.first_invisible
                     + (IF is_visible(pre, arg[1]) = Ok(FALSE) THEN 1 ELSE 0)
    /\ (op = "make_invisible" /\ arg[1] \in preLive) =>
            /\ ret = Ok(Unit)
            /\ is_visible(St, arg[1]) = Ok(FALSE)
            /\ first_invisible =
                   pre.first_invisible
                     - (IF is_visible(pre, arg[1]) = Ok(TRUE) THEN 1 ELSE 0)
    /\ C8_Scenario

\* C9 (insert is invisible): right after insert(r) has returned h,
\* is_visible(h) == Ok(false), get(h) is Some(r), and first_invisible and the
\* visibility of every other live handle are as before the call.
C9_InsertInvisible ==
    (op = "insert") =>
        /\ is_visible(St, ret.val) = Ok(FALSE)
        /\ get(St, ret.val) = Some(elem)
        /\ first_invisible = pre.first_invisible
        /\ \A g \in preLive : is_visible(St, g) = is_visible(pre, g)

\* C10 (insert_visibly is visible): right after insert_visibly(r) has
\* returned h, also in stores that have had removals and hold invisible
\* instances, is_visible(h) == Ok(true), get(h) is Some(r), and
\* first_invisible is one greater than before the call.
C10_InsertVisibly ==
    (op = "insert_visibly" /\ ret.tag = "Ok") =>
        /\ is_visible(St, ret.val) = Ok(TRUE)
        /\ get(St, ret.val) = Some(elem)
        /\ first_invisible = pre.first_invisible + 1

\* C11 (never-issued handle): with a handle that no insert has issued
\* (handle >= next_handle), is_visible, make_visible, make_invisible and
\* remove return Err(InvalidHandle), get (and get_mut, the same lookup) is
\* None, and the store is left as it was, in every reachable store state.
NeverIssued(S) == {h \in HandleArgs : h >= S.next_handle}

C11_UnknownHandle ==
    /\ \A h \in NeverIssued(St) :
           /\ is_visible(St, h) = Err
           /\ get(St, h) = None
           /\ make_visible(St, h) = [store |-> St, ret |-> Err]
           /\ make_invisible(St, h) = [store |-> St, ret |-> Err]
           /\ remove(St, h) = [store |-> St, ret |-> Err]
    /\ (op \in {"make_visible", "make_invisible", "remove"}
          /\ arg[1] \in NeverIssued(pre)) =>
           /\ ret = Err
           /\ St = pre

\* C11 witness: remove was called with a never-issued handle on a store that
\* holds a visible instance and has had a removal.
C11_Witness ==
    /\ op = "remove"
    /\ arg[1] \in NeverIssued(pre)
    /\ ret = Err
    /\ pre.first_invisible > 0
    /\ removed # {}

\* C12 (swap_by_handle): swap_by_handle(h1, h2) on two distinct live handles
\* returns Ok, exchanges the dense positions of h1 and h2 in handles and
\* instances, leaves first_invisible and every other position unchanged, and
\* afterwards get(h1) and get(h2) are the records inserted under h1 and h2.
C12_SwapByHandle ==
    (op = "swap_by_handle" /\ arg[1] # arg[2]
       /\ arg[1] \in preLive /\ arg[2] \in preLive) =>
        /\ ret = Ok(Unit)
        /\ \E i, j \in 0..(Len(pre.handles) - 1) :
              /\ At(pre.handles, i) = arg[1]
              /\ At(pre.handles, j) = arg[2]
              /\ handles = VecSwap(pre.handles, i, j)
              /\ instances = VecSwap(pre.instances, i, j)
        /\ first_invisible = pre.first_invisible
        /\ get(St, arg[1]) = Some(inserted[arg[1]])
        /\ get(St, arg[2]) = Some(inserted[arg[2]])

\* C13 (swap_by_handle on an unknown handle): swap_by_handle(h1, h2) returns
\* Err(InvalidHandle) whenever h1 or h2 is not a live handle, also when
\* h1 == h2, and then leaves the store unchanged.
C13_SwapByHandleUnknown ==
    (op = "swap_by_handle" /\ (arg[1] \notin preLive \/ arg[2] \notin preLive)) =>
        /\ ret = Err
        /\ St = pre

----------------------------------------------------------------------------
\* Vocabulary of the properties of the updates and of draw

Updates == {"update_vertex_buffer", "update_index_buffer", "update_instance_buffer"}

\* Handles whose record (the one given to the insert that returned it) is r.
HandlesOf(r) == {h \in DOMAIN inserted : inserted[h] = r}

\* C14 (instance payload is the visible prefix): update_instance_buffer hands
\* to EngineBuffer::fill exactly the records at dense indices
\* [0, first_invisible) in dense order: the payload has first_invisible
\* records, each is the record of a handle for which is_visible returns
\* Ok(true), and no record of a handle reporting invisible is in it.
C14_InstancePayload ==
    (op = "update_instance_buffer" /\ ret.tag = "Ok") =>
        /\ Len(payload) = first_invisible
        /\ \A k \in 1..Len(payload) : payload[k] = At(instances, k - 1)
        /\ \A k \in 1..Len(payload) :
               \E h \in HandlesOf(payload[k]) : is_visible(St, h) = Ok(TRUE)
        /\ \A h \in DOMAIN inserted :
               is_visible(St, h) = Ok(FALSE) =>
                   \A k \in 1..Len(payload) : payload[k] # inserted[h]

\* C15 (draw): draw records no command when first_invisible == 0 or when the
\* vertex, index or instance buffer is absent; otherwise it records exactly
\* one indexed draw, with instance count first_invisible and index count
\* index_data.len().
C15_Draw ==
    op = "draw" =>
        IF \/ first_invisible = 0
           \/ vertex_buffer = <<>> \/ index_buffer = <<>> \/ instance_buffer = <<>>
        THEN commands = <<>>
        ELSE /\ Cardinality({k \in 1..Len(commands) :
                                 commands[k].cmd = "cmd_draw_indexed"}) = 1
             /\ \A k \in 1..Len(commands) :
                    commands[k].cmd = "cmd_draw_indexed" =>
                        /\ commands[k].instance_count = first_invisible
                        /\ commands[k].index_count = Len(index_data)

\* C15 witness: a draw with the three buffers present and visible records
\* has recorded its commands.
C15_Witness ==
    /\ op = "draw"
    /\ first_invisible > 0
    /\ vertex_buffer # <<>> /\ index_buffer # <<>> /\ instance_buffer # <<>>
    /\ commands # <<>>

\* C16 (no auto-sync): insert, insert_visibly, remove, make_visible,
\* make_invisible and swap_by_handle leave vertex_buffer, index_buffer and
\* instance_buffer (handle, allocation, capacity, contents) as they were and
\* make no allocator call; only the three updates change them.
C16_NoAutoSync ==
    op \notin Updates =>
        /\ vertex_buffer = pre.vertex_buffer
        /\ index_buffer = pre.index_buffer
        /\ instance_buffer = pre.instance_buffer
        /\ gpu = preGpu
        /\ events = <<>>

\* C16 witness: make_invisible has moved a record out of the visible prefix
\* of a store whose instance buffer exists and holds that record.
C16_Witness ==
    /\ op = "make_invisible"
    /\ ret.tag = "Ok"
    /\ first_invisible < pre.first_invisible
    /\ instance_buffer # <<>>
    /\ instance_buffer[1].allocation # None
    /\ Len(gpu.mem[instance_buffer[1].allocation.val]) > 0

----------------------------------------------------------------------------
\* Vocabulary of the EngineBuffer properties

MaxOf(S) == CHOOSE m \in S : \A x \in S : x <= m

Range(q) == {q[k] : k \in 1..Len(q)}

\* The last call was a fill on an EngineBuffer that existed.
WasFill == op = "fill" /\ preBuf # <<>>

PayloadBytes == Len(payload) * SizeOf

\* The last fill had to grow.
Grew == WasFill /\ PayloadBytes > preBuf[1].size_in_bytes

\* Positions in events of the calls named in `names`.
EventsOf(names) == {k \in 1..Len(events) : events[k].call \in names}

\* Calls named in `names` among the first k events.
CountUpTo(k, names) == Cardinality({j \in EventsOf(names) : j <= k})

\* Live allocations / buffer handles of the EngineBuffer after the first k
\* events of the last call.
LiveAllocationsAfter(k) ==
    (IF preBuf[1].allocation = None THEN 0 ELSE 1)
      + CountUpTo(k, {"allocate"}) - CountUpTo(k, {"free"})

LiveBuffersAfter(k) ==
    (IF preBuf[1].allocation = None THEN 0 ELSE 1)
      + CountUpTo(k, {"create_buffer"}) - CountUpTo(k, {"destroy_buffer"})

----------------------------------------------------------------------------
\* C17 (capacity is the maximum payload), as claimed: after the k-th fill
\* the capacity size_in_bytes equals max(s1..sk), the largest payload so far.
C17_CapacityIsMaxOfFills ==
    (op = "fill" /\ ret.tag = "Ok") =>
        buf[1].size_in_bytes = MaxOf(Range(fills))

\* C17 as amended: the capacity equals the maximum of the size given to
\* EngineBuffer::new and the payload sizes of the fills that returned Ok,
\* after new and after every fill and cleanup that returns.
C17_CapacityIsMaxWithInitial ==
    (buf # <<>> /\ ~aborted) =>
        buf[1].size_in_bytes = MaxOf({cap0} \cup Range(fills))

\* C17 witness: three fills have returned Ok: one below the initial capacity,
\* one above it, and one below the grown capacity.
C17_Witness ==
    /\ op = "fill"
    /\ ret.tag = "Ok"
    /\ Len(fills) = 3
    /\ fills[1] < cap0
    /\ fills[2] > cap0
    /\ fills[3] < fills[2]

\* C18 (fill round trip): after fill(data) has returned Ok on a buffer that
\* still holds its allocation, the first len(data) * size_of::<T>() bytes of
\* the mapped memory are the bytes of data, with or without a grow.
C18_FillRoundTrip ==
    (WasFill /\ ret.tag = "Ok" /\ buf[1].allocation # None) =>
        /\ MapHas(gpu.mem, buf[1].allocation.val)
        /\ Len(gpu.mem[buf[1].allocation.val]) >= PayloadBytes
        /\ SubSeq(gpu.mem[buf[1].allocation.val], 1, PayloadBytes)
              = Encode(payload, SizeOf)

\* C18 witness: a fill with a non-empty payload has grown the buffer and
\* returned Ok, after an earlier fill that fitted.
C18_Witness ==
    /\ Grew
    /\ ret.tag = "Ok"
    /\ payload # <<>>
    /\ Len(fills) >= 2
    /\ fills[1] <= cap0

\* C19 (no leak on grow): when fill grows, the old allocation is freed and
\* the old buffer destroyed before the new buffer is created, allocated and
\* bound; the EngineBuffer never has more than one live allocation or more
\* than one live buffer handle during the call, and exactly one of each once
\* the call has returned.
C19_NoLeakOnGrow ==
    Grew =>
        /\ \A i \in EventsOf({"free", "destroy_buffer"}),
              j \in EventsOf({"create_buffer", "allocate", "bind_buffer_memory"}) :
                i < j
        /\ \A k \in 0..Len(events) :
              /\ LiveAllocationsAfter(k) <= 1
              /\ LiveBuffersAfter(k) <= 1
        /\ (ret.tag = "Ok") =>
              /\ LiveAllocationsAfter(Len(events)) = 1
              /\ LiveBuffersAfter(Len(events)) = 1
              /\ gpu.allocations = {buf[1].allocation.val}
              /\ gpu.buffers = {buf[1].buffer}
              /\ EventsOf({"free"}) # {}
              /\ EventsOf({"allocate"}) # {}

\* C19 witness: a fill has grown a buffer that had already grown once.
C19_Witness ==
    /\ Grew
    /\ ret.tag = "Ok"
    /\ Len(fills) >= 2
    /\ fills[1] > cap0

\* C20 (no shrink): size_in_bytes never decreases across a fill and is at
\* least the size of the last payload written; a fill whose payload fits the
\* capacity leaves the buffer handle, allocation, capacity, usage and memory
\* location as they were and makes no allocator or device create / destroy
\* call.
C20_NoShrink ==
    /\ WasFill => buf[1].size_in_bytes >= preBuf[1].size_in_bytes
    /\ (buf # <<>> /\ fills # <<>>) =>
           buf[1].size_in_bytes >= fills[Len(fills)]
    /\ (WasFill /\ PayloadBytes <= preBuf[1].size_in_bytes) =>
           /\ buf = preBuf
           /\ EventsOf({"create_buffer", "allocate", "bind_buffer_memory",
                         "free", "destroy_buffer"}) = {}

\* C20 witness: a fill has returned Ok with a payload smaller than the one
\* before it, which had grown the buffer; and a zero-byte fill is one such.
C20_Witness ==
    /\ WasFill
    /\ ret.tag = "Ok"
    /\ Len(fills) >= 2
    /\ fills[Len(fills)] < fills[Len(fills) - 1]
    /\ fills[Len(fills) - 1] > cap0
    /\ preBuf[1].size_in_bytes = fills[Len(fills) - 1]

----------------------------------------------------------------------------
\* Invariants of the store over every sequence of public calls

\* C27 (dense arrays and partition index in range): in every reachable state
\* handles.len() == instances.len() and 0 <= first_invisible <=
\* instances.len(), so the slice instances[0..first_invisible] is in bounds.
C27_PrefixInBounds ==
    /\ Len(handles) = Len(instances)
    /\ 0 <= first_invisible
    /\ first_invisible <= Len(instances)

\* C28 (key set of the map): in every reachable state the keys of
\* handle_to_index are exactly the values in handles: the map has
\* handles.len() entries, none for a removed or never-issued handle, and
\* every mapped index is < instances.len().
C28_MapKeys ==
    /\ DOMAIN handle_to_index = Range(handles)
    /\ Cardinality(DOMAIN handle_to_index) = Len(handles)
    /\ \A h \in DOMAIN handle_to_index :
           /\ h \notin removed
           /\ h \in Issued(returned)
           /\ handle_to_index[h] < Len(instances)

\* C29 (no store call aborts): every insert, insert_visibly, get, is_visible,
\* make_visible, make_invisible, swap_by_handle and remove call returns its
\* value or InvalidHandle / None; none panics on an out-of-bounds index, on
\* first_invisible - 1 or instances.len() - 1 underflowing, or on an empty
\* pop.
C29_NoAbort ==
    /\ ret # Panic
    /\ ~aborted
    /\ \A h \in HandleArgs : get(St, h).tag \in {"Some", "None"}
    /\ \A h \in HandleArgs : is_visible(St, h).tag \in {"Ok", "Err"}

----------------------------------------------------------------------------
\* Release of an EngineBuffer

\* C21 (cleanup releases both, once): whenever cleanup returns it has freed
\* the allocation and destroyed the buffer handle, in that one call; a
\* cleanup on an EngineBuffer whose allocation is already taken panics on the
\* unwrap before any free or destroy_buffer, and no later call on that
\* EngineBuffer frees or destroys again.
C21_CleanupOnce ==
    /\ (op = "cleanup" /\ preBuf[1].allocation # None) =>
           /\ ret = Ok(Unit)
           /\ events = <<Event("free", preBuf[1].allocation.val),
                         Event("destroy_buffer", preBuf[1].buffer)>>
           /\ preBuf[1].allocation.val \notin gpu.allocations
           /\ preBuf[1].buffer \notin gpu.buffers
           /\ buf[1].allocation = None
    /\ (op = "cleanup" /\ ret.tag = "Ok") =>
           /\ Cardinality(EventsOf({"free"})) = 1
           /\ Cardinality(EventsOf({"destroy_buffer"})) = 1
    /\ (op = "cleanup" /\ preBuf[1].allocation = None) =>
           /\ ret = Panic
           /\ events = <<>>
           /\ gpu = preGpu
    /\ (op \in {"cleanup", "fill"} /\ preBuf[1].allocation = None) =>
           /\ EventsOf({"free", "destroy_buffer"}) = {}
           /\ buf[1].allocation = None

\* C21 witness: a second cleanup on the same EngineBuffer has panicked.
C21_Witness ==
    /\ op = "cleanup"
    /\ ret = Panic
    /\ preBuf[1].allocation = None
    /\ preBuf[1].buffer \notin gpu.buffers

----------------------------------------------------------------------------
\* Failures of the device and of the allocator

\* The last call ran EngineBuffer::new and the device or the allocator
\* refused one of its three steps.
NewFailed ==
    /\ arg # <<>>
    /\ arg[1] # "ok"
    /\ \/ op = "new"
       \/ /\ WasFill
          /\ PayloadBytes > preBuf[1].size_in_bytes
          /\ preBuf[1].allocation # None

\* C23 (allocator failures are surfaced): when create_buffer, allocate or
\* bind_buffer_memory fails inside EngineBuffer::new, called directly or from
\* a growing fill, the call returns Err and the program goes on.
C23_FailuresSurfaced ==
    NewFailed =>
        /\ ret.tag = "Err"
        /\ ~aborted

----------------------------------------------------------------------------
\* VkAllocator

\* C22 (allocate_buffer / allocate_image are transactional): whenever either
\* returns Err, no buffer, image or allocation made by the call is still
\* live: the live sets are what they were when the call started.
C22_Transactional ==
    (op \in {"allocate_buffer", "allocate_image"} /\ ret.tag = "Err") =>
        /\ gpu.buffers = preGpu.buffers
        /\ gpu.images = preGpu.images
        /\ gpu.allocations = preGpu.allocations

----------------------------------------------------------------------------
\* The engine: teardown and the light buffer

\* Positions in the log of the engine's life of the calls named in `names`.
LogOf(names) == {k \in 1..Len(log) : log[k].call \in names}

\* Allocations the allocator has handed out during the engine's life.
Obtained == {log[k].id : k \in LogOf({"allocate"})}

\* Positions in the log at which allocation a was freed.
FreesOf(a) == {k \in LogOf({"free"}) : log[k].id = a}

\* C25 (everything freed once at teardown): when VulkanEngine::drop has run,
\* every allocation obtained from the allocator during the engine's life
\* (uniform buffer, light buffer, model buffers, depth image) has been freed
\* through the allocator exactly once, before the allocator was dropped.
C25_AllFreedOnce ==
    (op = "drop" /\ ret.tag = "Ok") =>
        \A a \in Obtained :
            /\ Cardinality(FreesOf(a)) = 1
            /\ \A k \in FreesOf(a), d \in LogOf({"allocator_drop"}) : k < d

\* C26 (teardown order): in VulkanEngine::drop device_wait_idle comes before
\* every EngineBuffer::cleanup, every cleanup before the drop of the
\* allocator, the drop of the allocator before destroy_device; nothing is
\* freed, destroyed as a buffer, or allocated once the allocator is dropped.
C26_TeardownOrder ==
    /\ op = "drop" =>
          /\ \A c \in EventsOf({"free", "destroy_buffer"}) :
                 \E w \in EventsOf({"device_wait_idle"}) : w < c
          /\ \A c \in EventsOf({"free", "destroy_buffer"}),
                d \in EventsOf({"allocator_drop"}) : c < d
          /\ \A d \in EventsOf({"allocator_drop"}),
                x \in EventsOf({"destroy_device"}) : d < x
          /\ ret.tag = "Ok" =>
                 /\ Cardinality(EventsOf({"device_wait_idle"})) = 1
                 /\ Cardinality(EventsOf({"allocator_drop"})) = 1
                 /\ Cardinality(EventsOf({"destroy_device"})) = 1
    /\ \A d \in LogOf({"allocator_drop"}),
          k \in LogOf({"free", "destroy_buffer", "allocate", "create_buffer"}) : k < d

\* C26 witness: drop has run to its end on an engine that owns a model with
\* its three buffers.
C26_Witness ==
    /\ op = "drop"
    /\ ret.tag = "Ok"
    /\ Len(preEngine[1].models) > 0
    /\ Cardinality(EventsOf({"free"})) = 5

\* C30 (light descriptor sets follow the buffer): after every update_buffer
\* that returns Ok each light descriptor set refers to the buffer handle the
\* EngineBuffer holds now, which is live; the sets are rewritten in exactly
\* the calls in which fill replaced the buffer, and are left as they were in
\* the others.
C30_DescriptorSetsFollow ==
    (op = "update_buffer" /\ ret.tag = "Ok") =>
        LET E == engine[1]
            P == preEngine[1]
            replaced == EventsOf({"destroy_buffer"}) # {}
        IN /\ \A k \in 1..Len(E.descriptor_sets_light) :
                  /\ E.descriptor_sets_light[k] = E.light_buffer.buffer
                  /\ E.descriptor_sets_light[k] \in gpu.buffers
           /\ replaced <=> (E.light_buffer.buffer # P.light_buffer.buffer)
           /\ replaced =>
                  Cardinality(EventsOf({"update_descriptor_sets"}))
                      = Len(E.descriptor_sets_light)
           /\ ~replaced =>
                  /\ EventsOf({"update_descriptor_sets"}) = {}
                  /\ E.descriptor_sets_light = P.descriptor_sets_light

\* C30 witness: an update_buffer with a light added has grown the light
\* buffer and rewritten the sets.
C30_Witness ==
    /\ op = "update_buffer"
    /\ ret.tag = "Ok"
    /\ Len(payload) > 4
    /\ engine[1].light_buffer.buffer # preEngine[1].light_buffer.buffer
    /\ EventsOf({"update_descriptor_sets"}) # {}

----------------------------------------------------------------------------
\* The render loop

\* C24 (no write while the GPU reads): with N >= 2 frames in flight,
\* update_instance_buffer in the RedrawRequested handler never runs while a
\* command buffer submitted earlier, which binds the instance buffer, is
\* still executing: the fence waited on covers every submission in flight.
C24_NoWriteWhileInFlight ==
    (op = "redraw" /\ ret.tag = "Ok") => busyAtWrite = {}

====
